---- MODULE Spec2Model ----
(***************************************************************************)
(* Model of UTF8MixedRadixTokenizer (src/utf8_mixed_radix_tokenizer.py).   *)
(*                                                                         *)
(* A Python str is a sequence of code points 0..0x10FFFF (lone surrogates  *)
(* included), a bytes object a sequence of integers 0..255, a token list a *)
(* sequence of unbounded integers.  tokenize and detokenize are modelled   *)
(* one loop iteration per step; a raise ends the call in pc = "failed".    *)
(***************************************************************************)
EXTENDS Integers, Sequences, FiniteSets

VARIABLES
    plan,      \* order of the two calls: "roundtrip" or "converse"
    pc,        \* "tokenize", "tokenized", "detokenize", "detokenized", "done", "failed"
    failedIn,  \* the call that raised: "none", "tokenize", "detokenize"
    text,      \* tokenize: the argument `text`
    ti,        \* tokenize: number of characters of `text` already consumed
    encoded,   \* tokenize: the local `encoded` of the last iteration
    tokens,    \* tokenize: the local list `tokens`
    tret,      \* tokenize: the returned list, <<>> wrapped: <<list>> or <<>>
    dtokens,   \* detokenize: the argument `tokens`
    di,        \* detokenize: number of tokens already consumed
    branch,    \* detokenize: branch taken by the last iteration (1..4, 5 = else, 0 = none)
    b,         \* detokenize: the local `b` of the last iteration
    chars,     \* detokenize: the local list `chars` (one string per entry)
    dret,      \* detokenize: the returned string, wrapped: <<str>> or <<>>
    err        \* the raised exception: what raised and what its message carries

vars == <<plan, pc, failedIn, text, ti, encoded, tokens, tret,
          dtokens, di, branch, b, chars, dret, err>>

(***************************************************************************)
(* Bounds of the model.                                                    *)
(***************************************************************************)
MaxLen == 3      \* longest text / token list of the sequence runs
Window == 8      \* single-element runs: values within Window of a boundary
Grid   == 200    \* single-element runs: Grid+1 evenly spaced code points

(***************************************************************************)
(* Python integer operators on non-negative operands, bit by bit.          *)
(***************************************************************************)
RECURSIVE BitAnd(_, _)
BitAnd(x, y) ==
    IF x = 0 \/ y = 0 THEN 0
    ELSE 2 * BitAnd(x \div 2, y \div 2) + (IF x % 2 = 1 /\ y % 2 = 1 THEN 1 ELSE 0)

RECURSIVE BitOr(_, _)
BitOr(x, y) ==
    IF x = 0 THEN y
    ELSE IF y = 0 THEN x
    ELSE 2 * BitOr(x \div 2, y \div 2) + (IF x % 2 = 1 \/ y % 2 = 1 THEN 1 ELSE 0)

Shl(x, n) == x * (2 ^ n)

Shr(x, n) == x \div (2 ^ n)

(***************************************************************************)
(* str.encode('utf-8') of one character.  The result is [ok, bytes]:        *)
(* ok = FALSE is the UnicodeEncodeError raised for a lone surrogate.       *)
(***************************************************************************)
IsSurrogate(cp) == cp >= 55296 /\ cp <= 57343

IsScalar(cp) == cp >= 0 /\ cp <= 1114111 /\ ~IsSurrogate(cp)

Utf8Encode(cp) ==
    IF cp < 128 THEN [ok |-> TRUE, bytes |-> <<cp>>]
    ELSE IF cp < 2048
         THEN [ok |-> TRUE, bytes |-> <<192 + (cp \div 64), 128 + (cp % 64)>>]
    ELSE IF IsSurrogate(cp) THEN [ok |-> FALSE, bytes |-> <<>>]
    ELSE IF cp < 65536
         THEN [ok |-> TRUE,
               bytes |-> <<224 + (cp \div 4096), 128 + ((cp \div 64) % 64),
                           128 + (cp % 64)>>]
    ELSE [ok |-> TRUE,
          bytes |-> <<240 + (cp \div 262144), 128 + ((cp \div 4096) % 64),
                      128 + ((cp \div 64) % 64), 128 + (cp % 64)>>]

(***************************************************************************)
(* bytes.decode('utf-8'), strict.  The result is [ok, str]: ok = FALSE is  *)
(* the UnicodeDecodeError.                                                 *)
(***************************************************************************)
IsCont(x) == x >= 128 /\ x <= 191

\* Number of bytes announced by a lead byte, 0 for an invalid start byte.
LeadLen(x) ==
    IF x < 128 THEN 1
    ELSE IF x >= 194 /\ x <= 223 THEN 2
    ELSE IF x >= 224 /\ x <= 239 THEN 3
    ELSE IF x >= 240 /\ x <= 244 THEN 4
    ELSE 0

\* SecondOk without the surrogate exclusion after lead byte 0xED.
SecondOkSurrogatePass(x, y) ==
    IF x = 224 THEN y >= 160 /\ y <= 191
    ELSE IF x = 240 THEN y >= 144 /\ y <= 191
    ELSE IF x = 244 THEN y >= 128 /\ y <= 143
    ELSE IsCont(y)

\* The range allowed for the second byte after lead byte x.
SecondOk(x, y) ==
    IF x = 224 THEN y >= 160 /\ y <= 191
    ELSE IF x = 237 THEN y >= 128 /\ y <= 159
    ELSE IF x = 240 THEN y >= 144 /\ y <= 191
    ELSE IF x = 244 THEN y >= 128 /\ y <= 143
    ELSE IsCont(y)

DecodeOne(s, n) ==
    IF n = 1 THEN s[1]
    ELSE IF n = 2 THEN (s[1] - 192) * 64 + (s[2] - 128)
    ELSE IF n = 3 THEN (s[1] - 224) * 4096 + (s[2] - 128) * 64 + (s[3] - 128)
    ELSE (s[1] - 240) * 262144 + (s[2] - 128) * 4096 + (s[3] - 128) * 64 + (s[4] - 128)

\* decode with errors='replace': never raises, U+FFFD for malformed input.
Utf8DecodeReplace(s) ==
    IF s = <<>> THEN [ok |-> TRUE, str |-> <<>>]
    ELSE LET n == LeadLen(s[1]) IN
         IF n = 0 \/ Len(s) # n \/ (n >= 2 /\ ~SecondOk(s[1], s[2]))
               \/ (\E k \in 3..n : ~IsCont(s[k]))
         THEN [ok |-> TRUE, str |-> <<65533>>]
         ELSE [ok |-> TRUE, str |-> <<DecodeOne(s, n)>>]

RECURSIVE Utf8Decode(_)
Utf8Decode(s) ==
    IF s = <<>> THEN [ok |-> TRUE, str |-> <<>>]
    ELSE LET n == LeadLen(s[1]) IN
         IF n = 0 \/ Len(s) < n THEN [ok |-> FALSE, str |-> <<>>]
         ELSE IF n >= 2 /\ ~SecondOk(s[1], s[2]) THEN [ok |-> FALSE, str |-> <<>>]
         ELSE IF \E k \in 3..n : ~IsCont(s[k]) THEN [ok |-> FALSE, str |-> <<>>]
         ELSE LET rest == Utf8Decode(SubSeq(s, n + 1, Len(s))) IN
              [ok |-> rest.ok, str |-> <<DecodeOne(s, n)>> \o rest.str]

(***************************************************************************)
(* bytes([...]): ValueError unless every element is in range(0, 256).      *)
(***************************************************************************)
BytesOk(s) == \A k \in 1..Len(s) : s[k] >= 0 /\ s[k] < 256

(***************************************************************************)
(* tokenize: the bit extraction of each branch, and the dispatch on        *)
(* len(encoded).  TokenOf is <<token>>, or <<>> for the else branch.       *)
(***************************************************************************)
Token1(e) == BitAnd(e[1], 127)

\* Token2 with the lead byte's bits shifted by 5 instead of 6.
Token2Shift5(e) == BitOr(Shl(BitAnd(e[1], 31), 5), BitAnd(e[2], 63))

Token2(e) == BitOr(Shl(BitAnd(e[1], 31), 6), BitAnd(e[2], 63))

\* Token3 with the lead byte's bits shifted by 10 instead of 12.
Token3Shift10(e) ==
    BitOr(BitOr(Shl(BitAnd(e[1], 15), 10), Shl(BitAnd(e[2], 63), 6)),
          BitAnd(e[3], 63))

Token3(e) ==
    BitOr(BitOr(Shl(BitAnd(e[1], 15), 12), Shl(BitAnd(e[2], 63), 6)),
          BitAnd(e[3], 63))

Token4(e) ==
    BitOr(BitOr(BitOr(Shl(BitAnd(e[1], 7), 18), Shl(BitAnd(e[2], 63), 12)),
                Shl(BitAnd(e[3], 63), 6)),
          BitAnd(e[4], 63))

\* TokenOf without the 4-byte branch.
TokenOfNoFourByte(e) ==
    IF Len(e) = 1 THEN <<Token1(e)>>
    ELSE IF Len(e) = 2 THEN <<Token2(e)>>
    ELSE IF Len(e) = 3 THEN <<Token3(e)>>
    ELSE <<>>

TokenOf(e) ==
    IF Len(e) = 1 THEN <<Token1(e)>>
    ELSE IF Len(e) = 2 THEN <<Token2(e)>>
    ELSE IF Len(e) = 3 THEN <<Token3(e)>>
    ELSE IF Len(e) = 4 THEN <<Token4(e)>>
    ELSE <<>>

(***************************************************************************)
(* detokenize: the magnitude classification and the list handed to         *)
(* bytes() in each branch.                                                 *)
(***************************************************************************)
\* Classify with `<=` for `<` in the first comparison.
ClassifyOffByOne(token) ==
    IF token <= 128 THEN 1
    ELSE IF token < 2048 THEN 2
    ELSE IF token < 65536 THEN 3
    ELSE IF token < 1114112 THEN 4
    ELSE 5

Classify(token) ==
    IF token < 128 THEN 1
    ELSE IF token < 2048 THEN 2
    ELSE IF token < 65536 THEN 3
    ELSE IF token < 1114112 THEN 4
    ELSE 5

Bytes1(token) == <<token>>

\* Bytes2 with the continuation byte masked by 0x7F instead of 0x3F.
Bytes2WideMask(token) ==
    <<BitOr(192, Shr(token, 6)), BitOr(128, BitAnd(token, 127))>>

Bytes2(token) == <<BitOr(192, Shr(token, 6)), BitOr(128, BitAnd(token, 63))>>

Bytes3(token) ==
    <<BitOr(224, Shr(token, 12)),
      BitOr(128, BitAnd(Shr(token, 6), 63)),
      BitOr(128, BitAnd(token, 63))>>

\* Bytes4 with the second byte taken from bits 10.. instead of 12..
Bytes4Shift10(token) ==
    <<BitOr(240, Shr(token, 18)),
      BitOr(128, BitAnd(Shr(token, 10), 63)),
      BitOr(128, BitAnd(Shr(token, 6), 63)),
      BitOr(128, BitAnd(token, 63))>>

Bytes4(token) ==
    <<BitOr(240, Shr(token, 18)),
      BitOr(128, BitAnd(Shr(token, 12), 63)),
      BitOr(128, BitAnd(Shr(token, 6), 63)),
      BitOr(128, BitAnd(token, 63))>>

BytesOf(token, c) ==
    IF c = 1 THEN Bytes1(token)
    ELSE IF c = 2 THEN Bytes2(token)
    ELSE IF c = 3 THEN Bytes3(token)
    ELSE Bytes4(token)

\* ''.join(chars)
RECURSIVE Join(_)
Join(cs) == IF cs = <<>> THEN <<>> ELSE Head(cs) \o Join(Tail(cs))

(***************************************************************************)
(* Exceptions.  kind names the raise site; token, bytes and char are what  *)
(* the message carries (<<>> when it carries none).                        *)
(***************************************************************************)
NoError == [kind |-> "none", token |-> <<>>, bytes |-> <<>>, char |-> <<>>]

\* char.encode raising on a lone surrogate: the message shows the character.
UnicodeEncodeError(c) ==
    [kind |-> "UnicodeEncodeError", token |-> <<>>, bytes |-> <<>>, char |-> <<c>>]

\* raise ValueError(f"Unexpected UTF-8 byte length {len(encoded)} for character {char!r}")
EncodingLengthError(c) ==
    [kind |-> "EncodingLengthError", token |-> <<>>, bytes |-> <<>>, char |-> <<c>>]

\* bytes([token]) raising "bytes must be in range(0, 256)"
BytesRangeError ==
    [kind |-> "BytesRangeError", token |-> <<>>, bytes |-> <<>>, char |-> <<>>]

\* raise ValueError(f"Token {token} is out of Unicode range")
TokenOutOfRange(token) ==
    [kind |-> "TokenOutOfRange", token |-> <<token>>, bytes |-> <<>>, char |-> <<>>]

\* raise ValueError(f"Failed to decode bytes {b} from token {token}: {e}")
InvalidReconstructedSequence(token, bs) ==
    [kind |-> "InvalidReconstructedSequence", token |-> <<token>>,
     bytes |-> <<bs>>, char |-> <<>>]

(***************************************************************************)
(* Inputs.                                                                 *)
(***************************************************************************)
\* sample_text = "Hello, 世界! 👋"
SampleText == <<72, 101, 108, 108, 111, 44, 32, 19990, 30028, 33, 32, 128075>>

Boundaries == {0, 128, 2048, 55296, 57344, 65536, 1114112}

NearBoundary == {x + d : x \in Boundaries, d \in (0 - Window - 1)..Window}

GridPoints == {(k * 1114111) \div Grid : k \in 0..Grid}

WideTokens ==
    NearBoundary \cup GridPoints \cup {SampleText[k] : k \in 1..Len(SampleText)}
                 \cup {0 - 200, 2097152, 4194304}

WideChars == {x \in WideTokens : x >= 0 /\ x <= 1114111}

SeqChars == {65, 128, 2047, 19990, 56320, 128075}

SeqTokens == {0 - 1, 65, 2047, 19990, 55296, 128075, 1114112}

SeqsOver(S) == UNION {[1..n -> S] : n \in 0..MaxLen}

Texts == SeqsOver(SeqChars) \cup {<<c>> : c \in WideChars} \cup {SampleText}

TokenLists == SeqsOver(SeqTokens) \cup {<<t>> : t \in WideTokens}

(***************************************************************************)
(* The state machine.                                                      *)
(***************************************************************************)
Init ==
    /\ plan \in {"roundtrip", "converse"}
    /\ pc = IF plan = "roundtrip" THEN "tokenize" ELSE "detokenize"
    /\ failedIn = "none"
    /\ text \in (IF plan = "roundtrip" THEN Texts ELSE {<<>>})
    /\ ti = 0
    /\ encoded = <<>>
    /\ tokens = <<>>
    /\ tret = <<>>
    /\ dtokens \in (IF plan = "converse" THEN TokenLists ELSE {<<>>})
    /\ di = 0
    /\ branch = 0
    /\ b = <<>>
    /\ chars = <<>>
    /\ dret = <<>>
    /\ err = NoError

\* One iteration of `for char in text`.
TokenizeChar ==
    /\ pc = "tokenize"
    /\ ti < Len(text)
    /\ LET char == text[ti + 1]
           enc  == Utf8Encode(char)
           e    == enc.bytes
           tk   == TokenOf(e)
       IN IF ~enc.ok
          THEN /\ pc' = "failed"
               /\ failedIn' = "tokenize"
               /\ err' = UnicodeEncodeError(char)
               /\ UNCHANGED <<ti, encoded, tokens>>
          ELSE IF tk = <<>>
          THEN /\ pc' = "failed"
               /\ failedIn' = "tokenize"
               /\ err' = EncodingLengthError(char)
               /\ encoded' = e
               /\ UNCHANGED <<ti, tokens>>
          ELSE /\ encoded' = e
               /\ tokens' = Append(tokens, tk[1])
               /\ ti' = ti + 1
               /\ UNCHANGED <<pc, failedIn, err>>
    /\ UNCHANGED <<plan, text, tret, dtokens, di, branch, b, chars, dret>>

\* `return tokens`
TokenizeReturn ==
    /\ pc = "tokenize"
    /\ ti = Len(text)
    /\ tret' = <<tokens>>
    /\ pc' = "tokenized"
    /\ UNCHANGED <<plan, failedIn, text, ti, encoded, tokens,
                   dtokens, di, branch, b, chars, dret, err>>

\* One iteration of `for token in tokens`.
DetokenizeToken ==
    /\ pc = "detokenize"
    /\ di < Len(dtokens)
    /\ LET token == dtokens[di + 1]
           c     == Classify(token)
           bs    == BytesOf(token, c)
           d     == Utf8Decode(bs)
       IN /\ branch' = c
          /\ IF c = 5
             THEN /\ pc' = "failed"
                  /\ failedIn' = "detokenize"
                  /\ err' = TokenOutOfRange(token)
                  /\ UNCHANGED <<di, b, chars>>
             ELSE IF ~BytesOk(bs)
             THEN /\ pc' = "failed"
                  /\ failedIn' = "detokenize"
                  /\ err' = BytesRangeError
                  /\ UNCHANGED <<di, b, chars>>
             ELSE IF ~d.ok
             THEN /\ pc' = "failed"
                  /\ failedIn' = "detokenize"
                  /\ err' = InvalidReconstructedSequence(token, bs)
                  /\ b' = bs
                  /\ UNCHANGED <<di, chars>>
             ELSE /\ b' = bs
                  /\ chars' = Append(chars, d.str)
                  /\ di' = di + 1
                  /\ UNCHANGED <<pc, failedIn, err>>
    /\ UNCHANGED <<plan, text, ti, encoded, tokens, tret, dtokens, dret>>

\* `return ''.join(chars)`
DetokenizeReturn ==
    /\ pc = "detokenize"
    /\ di = Len(dtokens)
    /\ dret' = <<Join(chars)>>
    /\ pc' = "detokenized"
    /\ UNCHANGED <<plan, failedIn, text, ti, encoded, tokens, tret,
                   dtokens, di, branch, b, chars, err>>

\* recovered_text = tokenizer.detokenize(tokens)
CallDetokenize ==
    /\ pc = "tokenized"
    /\ plan = "roundtrip"
    /\ dtokens' = tret[1]
    /\ pc' = "detokenize"
    /\ UNCHANGED <<plan, failedIn, text, ti, encoded, tokens, tret,
                   di, branch, b, chars, dret, err>>

\* tokenizer.tokenize(text) applied to a string detokenize returned
CallTokenize ==
    /\ pc = "detokenized"
    /\ plan = "converse"
    /\ text' = dret[1]
    /\ pc' = "tokenize"
    /\ UNCHANGED <<plan, failedIn, ti, encoded, tokens, tret,
                   dtokens, di, branch, b, chars, dret, err>>

\* The second call has returned.
Finish ==
    /\ \/ pc = "tokenized" /\ plan = "converse"
       \/ pc = "detokenized" /\ plan = "roundtrip"
    /\ pc' = "done"
    /\ UNCHANGED <<plan, failedIn, text, ti, encoded, tokens, tret,
                   dtokens, di, branch, b, chars, dret, err>>

Next ==
    \/ TokenizeChar
    \/ TokenizeReturn
    \/ DetokenizeToken
    \/ DetokenizeReturn
    \/ CallDetokenize
    \/ CallTokenize
    \/ Finish

Spec == Init /\ [][Next]_vars

TypeOK ==
    /\ plan \in {"roundtrip", "converse"}
    /\ pc \in {"tokenize", "tokenized", "detokenize", "detokenized", "done", "failed"}
    /\ failedIn \in {"none", "tokenize", "detokenize"}
    /\ ti \in 0..Len(text)
    /\ di \in 0..Len(dtokens)
    /\ branch \in 0..5
    /\ Len(tret) <= 1
    /\ Len(dret) <= 1

(***************************************************************************)
(* Vocabulary of the properties.                                           *)
(***************************************************************************)
ValidText(s) == \A k \in 1..Len(s) : IsScalar(s[k])

InvalidToken(t) == t < 0 \/ t >= 1114112 \/ IsSurrogate(t)

ValidTokens(ts) == \A k \in 1..Len(ts) : ~InvalidToken(ts[k])

\* Index of the first invalid token of ts, 0 when there is none.
FirstInvalid(ts) ==
    IF ValidTokens(ts) THEN 0
    ELSE CHOOSE k \in 1..Len(ts) :
             /\ InvalidToken(ts[k])
             /\ \A j \in 1..(k - 1) : ~InvalidToken(ts[j])

\* The n-byte row of the token range table.
InRow(t, n) ==
    IF n = 1 THEN t >= 0 /\ t <= 127
    ELSE IF n = 2 THEN t >= 128 /\ t <= 2047
    ELSE IF n = 3 THEN t >= 2048 /\ t <= 65535
    ELSE IF n = 4 THEN t >= 65536 /\ t <= 1114111
    ELSE FALSE

\* The token detokenize was working on when it raised.
FailedToken == dtokens[di + 1]

(***************************************************************************)
(* C1  Round-trip identity: for a text of valid scalar values, tokenize    *)
(* followed by detokenize raises nothing and returns exactly the text.     *)
(***************************************************************************)
C1_RoundTrip ==
    (plan = "roundtrip" /\ ValidText(text)) =>
        /\ pc # "failed"
        /\ (pc \in {"detokenized", "done"} => dret = <<text>>)

C1_Witness ==
    /\ plan = "roundtrip"
    /\ pc = "done"
    /\ text = SampleText
    /\ dret = <<SampleText>>

(***************************************************************************)
(* C2  tokenize yields the scalar values of the characters in order, one   *)
(* integer per character: after i iterations the list is the first i code  *)
(* points of the text, and the returned list is the whole text's.          *)
(***************************************************************************)
C2_TokenIsCodepoint ==
    (plan = "roundtrip" /\ ValidText(text)) =>
        /\ tokens = SubSeq(text, 1, ti)
        /\ (pc = "tokenized" => tret = <<text>> /\ Len(tret[1]) = Len(text))

C2_Witness ==
    /\ plan = "roundtrip"
    /\ pc = "tokenized"
    /\ Len(text) = 3
    /\ \E k \in 1..Len(text) : Len(Utf8Encode(text[k]).bytes) = 2
    /\ \E k \in 1..Len(text) : Len(Utf8Encode(text[k]).bytes) = 4
    /\ Len(tret[1]) = 3

(***************************************************************************)
(* C3  Converse round trip: for a token list of valid scalar values,       *)
(* detokenize raises nothing and tokenize of its result is the list again. *)
(***************************************************************************)
C3_Converse ==
    (plan = "converse" /\ ValidTokens(dtokens)) =>
        /\ pc # "failed"
        /\ (pc = "done" => tret = <<dtokens>>)

C3_Witness ==
    /\ plan = "converse"
    /\ pc = "done"
    /\ dtokens \in {<<127>>, <<128>>, <<2047>>, <<2048>>, <<65535>>, <<65536>>, <<1114111>>}
    /\ tret = <<dtokens>>

(***************************************************************************)
(* C4  A token that is negative or >= 0x110000 makes detokenize raise the  *)
(* out-of-range error of the final else branch, and is never classified    *)
(* into one of the four byte-length branches.                              *)
(***************************************************************************)
C4_OutOfRangeError ==
    (failedIn = "detokenize" /\ (FailedToken < 0 \/ FailedToken >= 1114112)) =>
        /\ err.kind = "TokenOutOfRange"
        /\ branch = 5

(***************************************************************************)
(* C5  Surrogate rejection: an iteration of detokenize on a token in       *)
(* 0xD800..0xDFFF takes the 3-byte branch, rebuilds three bytes and raises *)
(* the invalid-reconstructed-sequence error, appending no text.            *)
(***************************************************************************)
C5_SurrogateRejected ==
    [][(pc = "detokenize" /\ di < Len(dtokens) /\ IsSurrogate(dtokens[di + 1])) =>
          /\ pc' = "failed"
          /\ failedIn' = "detokenize"
          /\ branch' = 3
          /\ Len(b') = 3
          /\ err' = InvalidReconstructedSequence(dtokens[di + 1], b')
          /\ chars' = chars
          /\ dret' = <<>>]_vars

C5_Witness ==
    /\ failedIn = "detokenize"
    /\ IsSurrogate(FailedToken)
    /\ err.kind = "InvalidReconstructedSequence"
    /\ di > 0

(***************************************************************************)
(* C6  Fail fast: when the token list has an invalid token, detokenize     *)
(* never gets past the first one, never returns a text, and an error it    *)
(* raised was raised at that first invalid token.                          *)
(***************************************************************************)
C6_FailFast ==
    (plan = "converse" /\ ~ValidTokens(dtokens)) =>
        /\ di < FirstInvalid(dtokens)
        /\ Len(chars) < FirstInvalid(dtokens)
        /\ pc \in {"detokenize", "failed"}
        /\ dret = <<>>
        /\ (pc = "failed" => failedIn = "detokenize" /\ di + 1 = FirstInvalid(dtokens))
        /\ (pc = "detokenize" => ENABLED DetokenizeToken)

C6_Witness ==
    /\ plan = "converse"
    /\ pc = "failed"
    /\ Len(dtokens) = 3
    /\ FirstInvalid(dtokens) = 2
    /\ ~InvalidToken(dtokens[3])
    /\ dret = <<>>

(***************************************************************************)
(* C7  Every error detokenize raises carries the offending token's value   *)
(* or the byte sequence rebuilt from it.                                   *)
(***************************************************************************)
C7_ErrorIdentifiesToken ==
    failedIn = "detokenize" =>
        \/ err.token = <<FailedToken>>
        \/ err.bytes # <<>>

(***************************************************************************)
(* C8  tokenize of the one-character text U+4E16 (UTF-8 E4 B8 96) returns  *)
(* [20000].  As stated this fails: U+4E16 is 19990.  Amended: tokenize of  *)
(* the one-character text U+4E16 encodes it as E4 B8 96 and returns        *)
(* [19990].                                                                *)
(***************************************************************************)
C8_ShiIs20000 ==
    (plan = "roundtrip" /\ text = <<19990>> /\ pc = "tokenized") =>
        tret = << <<20000>> >>

C8_ShiIs19990 ==
    (plan = "roundtrip" /\ text = <<19990>> /\ pc = "tokenized") =>
        /\ encoded = <<228, 184, 150>>
        /\ tret = << <<19990>> >>

C8_Witness ==
    /\ plan = "roundtrip"
    /\ text = <<19990>>
    /\ pc = "tokenized"
    /\ ti = 1

(***************************************************************************)
(* C9  The length-error branch of tokenize is never taken: every encoded   *)
(* character has 1 to 4 bytes, and tokenize raises only on a text that     *)
(* holds something other than a valid scalar value.                        *)
(***************************************************************************)
C9_LengthErrorUnreachable ==
    /\ err.kind # "EncodingLengthError"
    /\ (ti > 0 => Len(encoded) \in 1..4)
    /\ (failedIn = "tokenize" => ~ValidText(text))

C9_Witness ==
    /\ pc = "tokenized"
    /\ ValidText(text)
    /\ Len(text) > 0
    /\ Len(encoded) = 4

(***************************************************************************)
(* C10  Range/length agreement: in a round trip of valid text, the token   *)
(* of a character whose UTF-8 encoding has n bytes lies in row n of the    *)
(* range table, detokenize takes branch n for it and rebuilds exactly the  *)
(* character's UTF-8 bytes.                                                *)
(***************************************************************************)
C10_RangeLengthAgreement ==
    (plan = "roundtrip" /\ ValidText(text)) =>
        /\ \A k \in 1..Len(tokens) :
               InRow(tokens[k], Len(Utf8Encode(text[k]).bytes))
        /\ (failedIn = "detokenize" => branch = Len(Utf8Encode(text[di + 1]).bytes))
        /\ ((failedIn # "detokenize" /\ di > 0) =>
               /\ branch = Len(Utf8Encode(text[di]).bytes)
               /\ b = Utf8Encode(text[di]).bytes
               /\ Len(b) = branch)
        /\ failedIn # "detokenize"

C10_Witness ==
    /\ plan = "roundtrip"
    /\ pc = "detokenize"
    /\ ValidText(text)
    /\ di = 2
    /\ branch = 3
    /\ Len(b) = 3
    /\ b = encoded
====
